---- MODULE Spec2Model ----
(***************************************************************************)
(* Model of isoCluster.py: provisioning of an IPU (IMC + ACC) by booting   *)
(* the IMC from an ISO over Redfish, preparing the cluster-facing port,    *)
(* registering a dhcpd host reservation and connecting to the ACC.         *)
(*                                                                         *)
(* One behaviour is a sequence of IPUIsoBoot runs on the same provisioning *)
(* host.  The dhcpd configuration file, its backup, the dhcpd service and  *)
(* the cluster-facing interface survive from one run to the next; all the  *)
(* other variables describe the run in progress.                           *)
(***************************************************************************)
EXTENDS Integers, Sequences, FiniteSets, TLC

\* ------------------------------------------------------------------ bounds
MaxRuns == 2

\* --------------------------------------------------------------- constants
\* retries=5 handed to boot_iso_redfish by helper
BootRetriesOneLess == 5 - 1

BootRetries == 5
\* port handed to HttpServerManager
HttpPort == 8000
\* prefix length of the address put on the cluster-facing port
PrefixLen == 24

\* The path does not exist (a value no file content equals).
NoFile == <<[kind |-> "nofile"]>>
NoIp == <<>>
NoServer == [dir |-> <<>>, port |-> 0]

\* A line of dhcpd.conf.  The first kind carries CDA_TAG.
TagLine == [kind |-> "tag"]
OtherLine(id) == [kind |-> "other", id |-> id]
HostLine(name, mac, ip) == [kind |-> "host", name |-> name, mac |-> mac, ip |-> ip]

\* ---------------------------------------------------------- inputs (bounded)
Ip1 == <<192, 168, 1, 50>>
Ip2 == <<10, 0, 0, 200>>

\* NodeConfig values a run may be called with: two distinct nodes, the first
\* node again with another address, and a node whose ip is None.
Nodes ==
    { [name |-> "ipu1", mac |-> "aa", ip |-> Ip1],
      [name |-> "ipu2", mac |-> "bb", ip |-> Ip2],
      [name |-> "ipu1", mac |-> "aa", ip |-> Ip2],
      [name |-> "ipu3", mac |-> "cc", ip |-> NoIp] }

\* Image references, as sequences of tokens (a token stands for a run of
\* characters without ':' or '/' in it).
RemoteIso == <<"http", ":", "/", "/", "srv", "/", "img.iso">>
AbsIso == <<"/", "srv", "/", "img.iso">>
NoNetlocIso == <<"http", ":", "/", "img.iso">>
RelIso == <<"img.iso">>

\* The image references a run may be called with, each with the answer
\* os.path.exists gives for it.
IsoInputs ==
    { <<RemoteIso, FALSE>>, <<AbsIso, TRUE>>, <<AbsIso, FALSE>>,
      <<NoNetlocIso, TRUE>>, <<RelIso, FALSE>> }

\* Contents dhcpd.conf may have before the first run.
InitialConfs ==
    { NoFile,
      <<OtherLine("op")>>,
      <<OtherLine("op"), HostLine("ipu1", "aa", Ip1)>>,
      <<TagLine>>,
      <<TagLine, HostLine("ipu1", "aa", Ip1)>> }

InitialBackups == { NoFile, <<OtherLine("old")>> }

InitialAddrs == { {}, {[addr |-> <<172, 16, 0, 1>>, prefix |-> 16]} }

\* Address of cc.external_port on the provisioning host (common.port_to_ip).
lh_ip == "lh_ip"

VARIABLES
    run,            \* number of runs started so far
    pc,             \* position of the run in progress
    node,           \* NodeConfig of the run
    iso,            \* image reference of the run
    isoExists,      \* os.path.exists(iso)
    iso_address,    \* address handed to boot_iso_redfish
    http_server,    \* the HttpServerManager that is serving, or NoServer
    attempts,       \* boot requests issued by boot_iso_redfish in this run
    unwinding,      \* an exception is leaving the with block
    dhcpdRunning,   \* the dhcpd service is active
    activeConf,     \* the configuration dhcpd loaded when it last started
    conf,           \* contents of DHCPD_CONFIG_PATH, or NoFile
    backup,         \* contents of DHCPD_CONFIG_BACKUP_PATH, or NoFile
    ifaceAddrs,     \* addresses on cc.network_api_port
    log,            \* calls made by the run, in order
    stages,         \* stages entered by the run, with their outcome
    pingOk,         \* outcome of ipu_acc.ping() in this run
    rebootOk,       \* outcome of "systemctl reboot" on the IMC in this run
    accUp,          \* the ACC answers on node.ip
    failedAt,       \* the call that ended the run, or "none"
    streak          \* consecutive successful configure_dhcpd calls

vars == << run, pc, node, iso, isoExists, iso_address, http_server, attempts,
           unwinding, dhcpdRunning, activeConf, conf, backup, ifaceAddrs,
           log, stages, pingOk, rebootOk, accUp, failedAt, streak >>

runVars == << node, iso, isoExists >>
dhcpFiles == << conf, backup >>
dhcpService == << dhcpdRunning, activeConf >>

\* ------------------------------------------------------------------ stages
StageOrder == <<"stop", "resolve", "boot", "port", "dhcp", "conn">>

StageIdx(s) == CHOOSE i \in 1..Len(StageOrder) : StageOrder[i] = s

StageOf(ev) ==
    CASE ev = "stop_dhcpd" -> "stop"
      [] ev \in {"is_http_url", "exists", "prepare_external_port", "server_start"} -> "resolve"
      [] ev \in {"boot_request", "imc_session", "install_settle", "server_stop"} -> "boot"
      [] ev \in {"addr_flush", "addr_add"} -> "port"
      [] ev \in {"conf_backup", "conf_touch", "conf_write", "dhcpd_restart"} -> "dhcp"
      [] OTHER -> "conn"

Enter(s) == Append(stages, [stage |-> s, status |-> "running"])
SetStatus(sq, st) == [sq EXCEPT ![Len(sq)].status = st]
Called(ev) == \E i \in 1..Len(log) : log[i] = ev
Count(ev) == Cardinality({i \in 1..Len(log) : log[i] = ev})

\* ------------------------------------------------------------ pure helpers
FirstIndex(sq, tok) ==
    IF \E i \in 1..Len(sq) : sq[i] = tok
    THEN CHOOSE i \in 1..Len(sq) : sq[i] = tok /\ \A j \in 1..(i - 1) : sq[j] # tok
    ELSE 0

LastIndex(sq, tok) ==
    IF \E i \in 1..Len(sq) : sq[i] = tok
    THEN CHOOSE i \in 1..Len(sq) : sq[i] = tok /\ \A j \in (i + 1)..Len(sq) : sq[j] # tok
    ELSE 0

\* urllib.parse.urlparse(url).scheme: what precedes the first ':' when
\* that is not empty and holds no '/'.
UrlScheme(url) ==
    LET i == FirstIndex(url, ":")
    IN  IF i > 1 /\ \A j \in 1..(i - 1) : url[j] # "/"
        THEN SubSeq(url, 1, i - 1)
        ELSE <<>>

UrlRest(url) ==
    IF UrlScheme(url) = <<>> THEN url
    ELSE SubSeq(url, Len(UrlScheme(url)) + 2, Len(url))

\* urllib.parse.urlparse(url).netloc: what follows a leading "//", up to
\* the next '/'.
UrlNetloc(url) ==
    LET rest == UrlRest(url)
    IN  IF Len(rest) >= 2 /\ rest[1] = "/" /\ rest[2] = "/"
        THEN LET tail == SubSeq(rest, 3, Len(rest))
                 k == FirstIndex(tail, "/")
             IN  IF k = 0 THEN tail ELSE SubSeq(tail, 1, k - 1)
        ELSE <<>>

is_http_url_noscheme(url) == UrlNetloc(url) # <<>>
is_http_url_any(url) == UrlScheme(url) # <<>> \/ UrlNetloc(url) # <<>>
is_http_url(url) == UrlScheme(url) # <<>> /\ UrlNetloc(url) # <<>>

\* os.path.basename / os.path.dirname
basename(path) == SubSeq(path, LastIndex(path, "/") + 1, Len(path))

dirname(path) ==
    LET i == LastIndex(path, "/")
        head == SubSeq(path, 1, i)
    IN  IF \A j \in 1..Len(head) : head[j] = "/" THEN head
        ELSE SubSeq(head, 1, i - 1)

\* get_subnet_range(node_ip, "255.255.255.0")[0]
get_subnet_range(ip) == <<ip[1], ip[2], ip[3], 0>>

\* f.readline() of the configuration file; CDA_TAG in line
readline(file) == IF Len(file) = 0 THEN [kind |-> "empty"] ELSE file[1]
HasTag(line) == line.kind = "tag"

\* dhcpConfig: parse, add a host, render
dhcp_config_from_file(file) == SelectSeq(file, LAMBDA l : l.kind = "host")

add_host(cfg, name, mac, ip) ==
    SelectSeq(cfg, LAMBDA h : h.mac # mac) \o <<HostLine(name, mac, ip)>>

write_to_file(cfg) == <<TagLine>> \o cfg

ConfKind(file) ==
    IF file = NoFile THEN "absent"
    ELSE IF HasTag(readline(file)) THEN "managed" ELSE "unmanaged"

NoStreak == [start |-> "none", len |-> 0, backups |-> 0, pre |-> "none"]

\* ------------------------------------------------- control-flow helpers
\* IPUIsoBoot: the statement that follows each call, in program order.
AfterStageSwapped(s) ==
    CASE s = "boot" -> "assert_ip"
      [] s = "assert" -> "conf_check"
      [] s = "dhcp" -> "addr_flush"
      [] s = "port" -> "conn_imc"
      [] OTHER -> "done"

\* A forgotten configure_dhcpd call.
AfterStageSkipsDhcp(s) ==
    CASE s = "boot" -> "assert_ip"
      [] s = "assert" -> "addr_flush"
      [] s = "port" -> "conn_imc"
      [] OTHER -> "done"

AfterStage(s) ==
    CASE s = "boot" -> "assert_ip"
      [] s = "assert" -> "addr_flush"
      [] s = "port" -> "conf_check"
      [] s = "dhcp" -> "conn_imc"
      [] OTHER -> "done"

\* An exception (or sys.exit) raised inside helper: the with statement runs
\* HttpServerManager.__exit__ before the exception leaves _redfish_boot_ipu.
AfterRaiseNoWith(srv) == "fatal"

AfterRaise(srv) == IF srv # NoServer THEN "server_exit" ELSE "fatal"

\* The test that sends render_dhcpd_conf to shutil.move.
NeedsBackupAnyFile(file) == file # NoFile

NeedsBackup(file) == file # NoFile /\ ~HasTag(readline(file))

\* What render_dhcpd_conf writes for node n over the (touched) file.
RenderedConfRaw(file, n) ==
    write_to_file(dhcp_config_from_file(file) \o <<HostLine(n.name, n.mac, n.ip)>>)

RenderedConfNoHost(file, n) == write_to_file(dhcp_config_from_file(file))

RenderedConf(file, n) ==
    write_to_file(add_host(dhcp_config_from_file(file), n.name, n.mac, n.ip))

\* The server the with statement enters for a local image.
ServerNotEntered(path) == NoServer

ServerFor(path) == [dir |-> dirname(path), port |-> HttpPort]

\* run_or_die of the flush: a non-zero exit ends the run.
AfterFlushIgnored(ok) == "addr_add"

AfterFlush(ok) == IF ok THEN "addr_add" ELSE "fatal"

\* The address configure_iso_network_port hands to "ip addr add".
AssignedAddrOfHost(ip) == [addr |-> ip, prefix |-> PrefixLen]

AssignedAddr(ip) == [addr |-> get_subnet_range(ip), prefix |-> PrefixLen]

\* configure_dhcpd: sys.exit(-1) when the restart returns non-zero.
AfterRestartIgnored(ok) == AfterStage("dhcp")

AfterRestart(ok) == IF ok THEN AfterStage("dhcp") ELSE "fatal"

\* ipu_imc.run("systemctl reboot"), then time.sleep(30), whatever it returns.
AfterRebootOrDie(ok) == IF ok THEN "WAITING_FOR_PORT" ELSE "fatal"

AfterReboot(ok) == "WAITING_FOR_PORT"

\* ipu_acc.ping() is followed by ipu_acc.ssh_connect, whatever it returns.
AfterPingUntilOk(ok) == IF ok THEN "CONNECTING_ACC" ELSE "PINGING_ACC"

AfterPing(ok) == "CONNECTING_ACC"

\* ---------------------------------------------------------------- Init
Init ==
    /\ run = 0
    /\ pc = "idle"
    /\ node = CHOOSE n \in Nodes : TRUE
    /\ iso = <<>>
    /\ isoExists = FALSE
    /\ iso_address = <<>>
    /\ http_server = NoServer
    /\ attempts = 0
    /\ unwinding = FALSE
    /\ dhcpdRunning \in BOOLEAN
    /\ conf \in InitialConfs
    /\ activeConf = conf
    /\ backup \in InitialBackups
    /\ ifaceAddrs \in InitialAddrs
    /\ log = <<>>
    /\ stages = <<>>
    /\ pingOk = FALSE
    /\ rebootOk = FALSE
    /\ accUp = FALSE
    /\ failedAt = "none"
    /\ streak = NoStreak

\* -------------------------------------------------------------- actions
\* A new call of IPUIsoBoot(cc, node, iso), after the previous one ended.
StartRun ==
    /\ pc \in {"idle", "done", "fatal"}
    /\ run < MaxRuns
    /\ run' = run + 1
    /\ \E n \in Nodes : node' = n
    /\ \E i \in IsoInputs : iso' = i[1] /\ isoExists' = i[2]
    /\ pc' = "stop_dhcpd"
    /\ iso_address' = <<>>
    /\ attempts' = 0
    /\ unwinding' = FALSE
    /\ log' = <<>>
    /\ stages' = <<>>
    /\ pingOk' = FALSE
    /\ rebootOk' = FALSE
    /\ accUp' = FALSE
    /\ failedAt' = "none"
    /\ streak' = [streak EXCEPT !.pre = "none"]
    /\ UNCHANGED << http_server, dhcpService, dhcpFiles, ifaceAddrs >>

\* lh.run("systemctl stop dhcpd"): the return code is not looked at.
StopDhcpd ==
    /\ pc = "stop_dhcpd"
    /\ \E ok \in BOOLEAN : dhcpdRunning' = IF ok THEN FALSE ELSE dhcpdRunning
    /\ log' = Append(log, "stop_dhcpd")
    /\ stages' = SetStatus(Enter("stop"), "ok")
    /\ pc' = "resolve"
    /\ UNCHANGED << rebootOk, accUp, failedAt >>
    /\ UNCHANGED << run, runVars, iso_address, http_server, attempts, unwinding,
                    activeConf, dhcpFiles, ifaceAddrs, pingOk, streak >>

\* is_http_url(iso) holds: boot from the address as given.
ResolveRemote ==
    /\ pc = "resolve"
    /\ is_http_url(iso)
    /\ iso_address' = iso
    /\ log' = Append(log, "is_http_url")
    /\ stages' = SetStatus(Enter("resolve"), "ok")
    /\ pc' = "boot"
    /\ UNCHANGED << rebootOk, accUp, failedAt >>
    /\ UNCHANGED << run, runVars, http_server, attempts, unwinding, dhcpService,
                    dhcpFiles, ifaceAddrs, pingOk, streak >>

\* A local path that does not exist: sys.exit(-1).
ResolveMissing ==
    /\ pc = "resolve"
    /\ ~is_http_url(iso)
    /\ ~isoExists
    /\ log' = log \o <<"is_http_url", "exists">>
    /\ stages' = SetStatus(Enter("resolve"), "fatal")
    /\ pc' = "fatal"
    /\ failedAt' = "exists"
    /\ UNCHANGED << rebootOk, accUp >>
    /\ UNCHANGED << run, runVars, iso_address, http_server, attempts, unwinding,
                    dhcpService, dhcpFiles, ifaceAddrs, pingOk, streak >>

\* A local path that exists: prepare the external port and find its address.
ResolveLocal ==
    /\ pc = "resolve"
    /\ ~is_http_url(iso)
    /\ isoExists
    /\ log' = log \o <<"is_http_url", "exists", "prepare_external_port">>
    /\ stages' = Enter("resolve")
    /\ pc' = "server_enter"
    /\ UNCHANGED << rebootOk, accUp, failedAt >>
    /\ UNCHANGED << run, runVars, iso_address, http_server, attempts, unwinding,
                    dhcpService, dhcpFiles, ifaceAddrs, pingOk, streak >>

\* with common.HttpServerManager(serve_path, 8000) as http_server
ServerEnter ==
    /\ pc = "server_enter"
    /\ http_server' = ServerFor(iso)
    /\ iso_address' = <<"http", ":", "/", "/", lh_ip, ":", HttpPort, "/">> \o basename(iso)
    /\ log' = Append(log, "server_start")
    /\ stages' = SetStatus(stages, "ok")
    /\ pc' = "boot"
    /\ UNCHANGED << rebootOk, accUp, failedAt >>
    /\ UNCHANGED << run, runVars, attempts, unwinding, dhcpService, dhcpFiles,
                    ifaceAddrs, pingOk, streak >>

\* One boot request of bmc.boot_iso_redfish(iso_address, retries=5, ...): it
\* succeeds, or fails and is retried, or fails for the last time and raises.
BootRequest ==
    /\ pc = "boot"
    /\ attempts < BootRetries
    /\ attempts' = attempts + 1
    /\ log' = Append(log, "boot_request")
    /\ \E ok \in BOOLEAN :
        \/ /\ ok
           /\ pc' = "imc_session"
           /\ stages' = IF attempts = 0 THEN Enter("boot") ELSE stages
           /\ UNCHANGED unwinding
           /\ UNCHANGED failedAt
        \/ /\ ~ok
           /\ attempts + 1 < BootRetries
           /\ pc' = "boot"
           /\ stages' = IF attempts = 0 THEN Enter("boot") ELSE stages
           /\ UNCHANGED unwinding
           /\ UNCHANGED failedAt
        \/ /\ ~ok
           /\ attempts + 1 >= BootRetries
           /\ pc' = AfterRaise(http_server)
           /\ unwinding' = (http_server # NoServer)
           /\ stages' = SetStatus(IF attempts = 0 THEN Enter("boot") ELSE stages, "fatal")
           /\ failedAt' = "boot_request"
    /\ UNCHANGED << rebootOk, accUp >>
    /\ UNCHANGED << run, runVars, iso_address, http_server, dhcpService, dhcpFiles,
                    ifaceAddrs, pingOk, streak >>

\* imc.ssh_connect(node.bmc_user, node.bmc_password) in helper
ImcSession ==
    /\ pc = "imc_session"
    /\ log' = Append(log, "imc_session")
    /\ \E ok \in BOOLEAN :
        \/ /\ ok
           /\ pc' = "install_settle"
           /\ UNCHANGED << stages, unwinding >>
           /\ UNCHANGED failedAt
        \/ /\ ~ok
           /\ pc' = AfterRaise(http_server)
           /\ unwinding' = (http_server # NoServer)
           /\ stages' = SetStatus(stages, "fatal")
           /\ failedAt' = "imc_session"
    /\ UNCHANGED << rebootOk, accUp >>
    /\ UNCHANGED << run, runVars, iso_address, http_server, attempts, dhcpService,
                    dhcpFiles, ifaceAddrs, pingOk, streak >>

\* time.sleep(25 * 60), then helper returns.
InstallSettle ==
    /\ pc = "install_settle"
    /\ log' = Append(log, "install_settle")
    /\ stages' = SetStatus(stages, "ok")
    /\ pc' = IF http_server # NoServer THEN "server_exit" ELSE AfterStage("boot")
    /\ UNCHANGED << rebootOk, accUp, failedAt >>
    /\ UNCHANGED << run, runVars, iso_address, http_server, attempts, unwinding,
                    dhcpService, dhcpFiles, ifaceAddrs, pingOk, streak >>

\* The end of the with block: HttpServerManager.__exit__.
ServerExit ==
    /\ pc = "server_exit"
    /\ http_server' = NoServer
    /\ log' = Append(log, "server_stop")
    /\ pc' = IF unwinding THEN "fatal" ELSE AfterStage("boot")
    /\ unwinding' = FALSE
    /\ UNCHANGED << rebootOk, accUp, failedAt >>
    /\ UNCHANGED << run, runVars, iso_address, attempts, dhcpService, dhcpFiles,
                    ifaceAddrs, stages, pingOk, streak >>

\* assert node.ip is not None
AssertIp ==
    /\ pc = "assert_ip"
    /\ pc' = IF node.ip = NoIp THEN "fatal" ELSE AfterStage("assert")
    /\ failedAt' = IF node.ip = NoIp THEN "assert_ip" ELSE failedAt
    /\ UNCHANGED << rebootOk, accUp >>
    /\ UNCHANGED << run, runVars, iso_address, http_server, attempts, unwinding,
                    dhcpService, dhcpFiles, ifaceAddrs, log, stages, pingOk, streak >>

\* lh.run_or_die("ip addr flush dev ...")
AddrFlush ==
    /\ pc = "addr_flush"
    /\ log' = Append(log, "addr_flush")
    /\ \E ok \in BOOLEAN :
        \/ /\ ok
           /\ ifaceAddrs' = {}
           /\ stages' = Enter("port")
           /\ pc' = AfterFlush(ok)
           /\ UNCHANGED failedAt
        \/ /\ ~ok
           /\ UNCHANGED ifaceAddrs
           /\ stages' = SetStatus(Enter("port"), "fatal")
           /\ pc' = AfterFlush(ok)
           /\ failedAt' = "addr_flush"
    /\ UNCHANGED << rebootOk, accUp >>
    /\ UNCHANGED << run, runVars, iso_address, http_server, attempts, unwinding,
                    dhcpService, dhcpFiles, pingOk, streak >>

\* lh.run_or_die("ip addr add {start}/24 dev ...")
AddrAdd ==
    /\ pc = "addr_add"
    /\ log' = Append(log, "addr_add")
    /\ \E ok \in BOOLEAN :
        \/ /\ ok
           /\ ifaceAddrs' = ifaceAddrs \cup {AssignedAddr(node.ip)}
           /\ stages' = SetStatus(stages, "ok")
           /\ pc' = AfterStage("port")
           /\ UNCHANGED failedAt
        \/ /\ ~ok
           /\ UNCHANGED ifaceAddrs
           /\ stages' = SetStatus(stages, "fatal")
           /\ pc' = "fatal"
           /\ failedAt' = "addr_add"
    /\ UNCHANGED << rebootOk, accUp >>
    /\ UNCHANGED << run, runVars, iso_address, http_server, attempts, unwinding,
                    dhcpService, dhcpFiles, pingOk, streak >>

\* render_dhcpd_conf, up to the move of a file that is not CDA's.
ConfCheck ==
    /\ pc = "conf_check"
    /\ stages' = Enter("dhcp")
    /\ streak' = [streak EXCEPT !.pre = ConfKind(conf)]
    /\ IF NeedsBackup(conf)
       THEN /\ backup' = conf
            /\ conf' = NoFile
            /\ log' = Append(log, "conf_backup")
       ELSE UNCHANGED << conf, backup, log >>
    /\ pc' = "conf_touch"
    /\ UNCHANGED << rebootOk, accUp, failedAt >>
    /\ UNCHANGED << run, runVars, iso_address, http_server, attempts, unwinding,
                    dhcpService, ifaceAddrs, pingOk >>

\* file.touch()
ConfTouch ==
    /\ pc = "conf_touch"
    /\ conf' = IF conf = NoFile THEN <<>> ELSE conf
    /\ log' = Append(log, "conf_touch")
    /\ pc' = "conf_write"
    /\ UNCHANGED << rebootOk, accUp, failedAt >>
    /\ UNCHANGED << run, runVars, iso_address, http_server, attempts, unwinding,
                    dhcpService, backup, ifaceAddrs, stages, pingOk, streak >>

\* dhcp_config_from_file, add_host, write_to_file
ConfWrite ==
    /\ pc = "conf_write"
    /\ conf' = RenderedConf(conf, node)
    /\ log' = Append(log, "conf_write")
    /\ pc' = "dhcpd_restart"
    /\ UNCHANGED << rebootOk, accUp, failedAt >>
    /\ UNCHANGED << run, runVars, iso_address, http_server, attempts, unwinding,
                    dhcpService, backup, ifaceAddrs, stages, pingOk, streak >>

\* The run ends between file.touch() and write_to_file (an exception of the
\* parser or the writer, or the process is killed).
ConfWriteAborts ==
    /\ pc = "conf_write"
    /\ stages' = SetStatus(stages, "fatal")
    /\ streak' = NoStreak
    /\ pc' = "fatal"
    /\ failedAt' = "conf_write"
    /\ UNCHANGED << rebootOk, accUp >>
    /\ UNCHANGED << run, runVars, iso_address, http_server, attempts, unwinding,
                    dhcpService, dhcpFiles, ifaceAddrs, log, pingOk >>

\* lh.run("systemctl restart dhcpd"); a non-zero return code is fatal.
DhcpdRestart ==
    /\ pc = "dhcpd_restart"
    /\ log' = Append(log, "dhcpd_restart")
    /\ \E ok \in BOOLEAN :
        \/ /\ ok
           /\ dhcpdRunning' = TRUE
           /\ activeConf' = conf
           /\ stages' = SetStatus(stages, "ok")
           /\ streak' = [start   |-> IF streak.len = 0 THEN streak.pre ELSE streak.start,
                         len     |-> streak.len + 1,
                         backups |-> streak.backups + Count("conf_backup"),
                         pre     |-> streak.pre]
           /\ pc' = AfterRestart(ok)
           /\ UNCHANGED failedAt
        \/ /\ ~ok
           /\ \E still \in {FALSE, dhcpdRunning} : dhcpdRunning' = still
           /\ UNCHANGED activeConf
           /\ stages' = SetStatus(stages, "fatal")
           /\ streak' = NoStreak
           /\ pc' = AfterRestart(ok)
           /\ failedAt' = "dhcpd_restart"
    /\ UNCHANGED << rebootOk, accUp >>
    /\ UNCHANGED << run, runVars, iso_address, http_server, attempts, unwinding,
                    dhcpFiles, ifaceAddrs, pingOk >>

\* ipu_imc.ssh_connect(node.bmc_user, node.bmc_password)
ConnImc ==
    /\ pc = "conn_imc"
    /\ log' = Append(log, "acc_imc_session")
    /\ \E ok \in BOOLEAN :
        \/ /\ ok
           /\ stages' = Enter("conn")
           /\ pc' = "START"
           /\ UNCHANGED failedAt
        \/ /\ ~ok
           /\ stages' = SetStatus(Enter("conn"), "fatal")
           /\ pc' = "fatal"
           /\ failedAt' = "acc_imc_session"
    /\ UNCHANGED << rebootOk, accUp >>
    /\ UNCHANGED << run, runVars, iso_address, http_server, attempts, unwinding,
                    dhcpService, dhcpFiles, ifaceAddrs, pingOk, streak >>

\* ipu_imc.run("systemctl reboot"): the return code is not looked at.
Reboot ==
    /\ pc = "START"
    /\ log' = Append(log, "reboot")
    /\ \E ok \in BOOLEAN :
        /\ rebootOk' = ok
        /\ pc' = AfterReboot(ok)
        /\ failedAt' = IF AfterReboot(ok) = "fatal" THEN "reboot" ELSE failedAt
    /\ UNCHANGED accUp
    /\ UNCHANGED << run, runVars, iso_address, http_server, attempts, unwinding,
                    dhcpService, dhcpFiles, ifaceAddrs, stages, pingOk, streak >>

\* time.sleep(30); the ACC may have come up meanwhile.
PortSettle ==
    /\ pc = "WAITING_FOR_PORT"
    /\ log' = Append(log, "port_settle")
    /\ accUp' \in BOOLEAN
    /\ pc' = "PINGING_ACC"
    /\ UNCHANGED << rebootOk, failedAt >>
    /\ UNCHANGED << run, runVars, iso_address, http_server, attempts, unwinding,
                    dhcpService, dhcpFiles, ifaceAddrs, stages, pingOk, streak >>

\* ipu_acc.ping(): the result is not looked at.  The probe can succeed
\* only when the ACC is up.
Ping ==
    /\ pc = "PINGING_ACC"
    /\ log' = Append(log, "ping")
    /\ \E up \in BOOLEAN :
        /\ accUp => up
        /\ accUp' = up
        /\ \E ok \in BOOLEAN :
            /\ ok => up
            /\ pingOk' = ok
            /\ pc' = AfterPing(ok)
    /\ UNCHANGED << rebootOk, failedAt >>
    /\ UNCHANGED << run, runVars, iso_address, http_server, attempts, unwinding,
                    dhcpService, dhcpFiles, ifaceAddrs, stages, streak >>

\* ipu_acc.ssh_connect("root", "redhat")
AccSession ==
    /\ pc = "CONNECTING_ACC"
    /\ log' = Append(log, "acc_session")
    /\ \E up \in BOOLEAN :
        /\ accUp => up
        /\ accUp' = up
    /\ UNCHANGED rebootOk
    /\ \E ok \in BOOLEAN :
        \/ /\ ok
           /\ accUp'
           /\ stages' = SetStatus(stages, "ok")
           /\ pc' = "done"
           /\ UNCHANGED failedAt
        \/ /\ ~ok
           /\ stages' = SetStatus(stages, "fatal")
           /\ pc' = "fatal"
           /\ failedAt' = "acc_session"
    /\ UNCHANGED << run, runVars, iso_address, http_server, attempts, unwinding,
                    dhcpService, dhcpFiles, ifaceAddrs, pingOk, streak >>

Next ==
    \/ StartRun
    \/ StopDhcpd
    \/ ResolveRemote
    \/ ResolveMissing
    \/ ResolveLocal
    \/ ServerEnter
    \/ BootRequest
    \/ ImcSession
    \/ InstallSettle
    \/ ServerExit
    \/ AssertIp
    \/ AddrFlush
    \/ AddrAdd
    \/ ConfCheck
    \/ ConfTouch
    \/ ConfWrite
    \/ ConfWriteAborts
    \/ DhcpdRestart
    \/ ConnImc
    \/ Reboot
    \/ PortSettle
    \/ Ping
    \/ AccSession

Spec == Init /\ [][Next]_vars

\* ================================================================ claims
StageStatus(s) ==
    IF \E i \in 1..Len(stages) : stages[i].stage = s
    THEN stages[CHOOSE i \in 1..Len(stages) : stages[i].stage = s].status
    ELSE "none"

Before(a, b) ==
    \A j \in 1..Len(log) : log[j] = b => \A i \in j..Len(log) : log[i] # a

HostsOf(file) == IF file = NoFile THEN <<>> ELSE dhcp_config_from_file(file)

Binds(file, mac, ip) ==
    \E i \in 1..Len(HostsOf(file)) : HostsOf(file)[i].mac = mac /\ HostsOf(file)[i].ip = ip

\* C1: the stages of a run are entered in the fixed order stop, resolve,
\* boot, port, dhcp, conn, each at most once; a stage is entered only when
\* every earlier stage ended without a fatal outcome; every call the run
\* made belongs to a stage it entered, in stage order, so that nothing of a
\* later stage happens after a fatal outcome.
C1_StagesInOrder ==
    /\ Len(stages) <= Len(StageOrder)
    /\ \A i \in 1..Len(stages) : stages[i].stage = StageOrder[i]
    /\ \A i \in 1..(Len(stages) - 1) : stages[i].status = "ok"
    /\ \A i \in 1..Len(log) : StageIdx(StageOf(log[i])) <= Len(stages)
    /\ \A i \in 1..(Len(log) - 1) :
          StageIdx(StageOf(log[i])) <= StageIdx(StageOf(log[i + 1]))
    /\ pc = "fatal" => \A i \in 1..Len(stages) : stages[i].status # "running"

C1_Witness ==
    /\ pc = "done"
    /\ Len(stages) = Len(StageOrder)
    /\ Called("server_stop")

\* C2: when a run ends because its local image does not exist, it has run
\* no command (not even the dhcpd stop), made no boot or session call,
\* started no image server.
C2_MissingImageNoSideEffect ==
    (pc = "fatal" /\ Called("exists") /\ ~isoExists) =>
        \A i \in 1..Len(log) : log[i] \in {"is_http_url", "exists"}

\* C3: over consecutive successful configure_dhcpd calls that began with a
\* file without the marker, exactly one move to the backup path was made;
\* a call that follows a successful one finds the marker on the first line
\* and moves nothing.
C3_BackupOnce ==
    /\ (streak.start = "unmanaged" /\ streak.len >= 1) => streak.backups = 1
    /\ (streak.len >= 1 /\ pc = "conf_check") => ConfKind(conf) = "managed"
    /\ (streak.len >= 1 /\ pc \in {"conf_touch", "conf_write", "dhcpd_restart"}) =>
          (streak.pre = "managed" /\ ~Called("conf_backup"))

C3_Witness ==
    /\ streak.start = "unmanaged"
    /\ streak.len = 2
    /\ streak.backups = 1

\* C4: the configuration file never holds two host reservations with the
\* same hardware address.
C4_OneReservationPerMac ==
    \A i, j \in 1..Len(HostsOf(conf)) :
        HostsOf(conf)[i].mac = HostsOf(conf)[j].mac => i = j

\* A run for a MAC that the file it found already reserved with another
\* address has written its reservation.
C4_Witness ==
    /\ pc = "dhcpd_restart"
    /\ streak.pre = "managed"
    /\ node.mac = "aa" /\ node.ip = Ip2
    /\ Binds(activeConf, "aa", Ip1)
    /\ conf = <<TagLine, HostLine("ipu1", "aa", Ip2)>>

\* C5: once configure_dhcpd has returned, the file starts with the marker
\* line and binds the node's MAC to the node's IP, it was written before
\* the restart, and dhcpd runs with exactly that file loaded.
C5_ReservationActive ==
    StageStatus("dhcp") = "ok" =>
        /\ conf # NoFile
        /\ HasTag(readline(conf))
        /\ Binds(conf, node.mac, node.ip)
        /\ Before("conf_write", "dhcpd_restart")
        /\ dhcpdRunning
        /\ activeConf = conf

C5_Witness ==
    /\ StageStatus("dhcp") = "ok"
    /\ streak.pre = "unmanaged"
    /\ pc = "done"

\* C6: from the first boot request until configure_dhcpd restarts the
\* service, dhcpd is not running.
C6_DhcpdDownDuringBoot ==
    (Called("boot_request") /\ ~Called("dhcpd_restart")) => ~dhcpdRunning

\* C7: a run that ended because the boot request failed BootRetries times
\* opened no session, did not wait, touched neither the port nor the dhcpd
\* configuration, never started connectivity, and leaves dhcpd stopped.
C7_BootFailureIsFatal ==
    (pc = "fatal" /\ StageStatus("boot") = "fatal" /\ ~Called("imc_session")) =>
        /\ \A i \in 1..Len(log) :
              StageOf(log[i]) \in {"stop", "resolve", "boot"}
              /\ log[i] # "install_settle"
        /\ ~dhcpdRunning

\* C8: boot requests are counted by attempts and never exceed 5; the driver
\* reports failure only after exactly 5 requests; no request follows a
\* request that succeeded or the fifth one that failed.
C8_RetryBound ==
    /\ Count("boot_request") = attempts
    /\ attempts <= 5
    /\ (StageStatus("boot") = "fatal" /\ ~Called("imc_session")) => attempts = 5
    /\ pc = "boot" => (attempts < 5 /\ ~Called("imc_session"))
    /\ Before("boot_request", "imc_session")

C8_Witness ==
    /\ pc = "fatal"
    /\ StageStatus("boot") = "fatal"
    /\ ~Called("imc_session")
    /\ attempts = 5

\* C9: an image server is running only inside the boot call of a run whose
\* image is a local path; after the boot call, on whatever path it was
\* left, and throughout a run with a remote address, none is running.
C9_ServerOnlyDuringBoot ==
    http_server # NoServer =>
        /\ pc \in {"boot", "imc_session", "install_settle", "server_exit"}
        /\ ~is_http_url(iso)

C9_Witness ==
    /\ pc = "fatal"
    /\ StageStatus("boot") = "fatal"
    /\ Called("server_start")
    /\ Called("server_stop")
    /\ http_server = NoServer

\* C10: the session to the ACC is opened only after a probe that succeeded.
C10_ConnectOnlyAfterPing ==
    (pc = "CONNECTING_ACC" \/ Called("acc_session")) => pingOk

NoCallOf(stageSet) == \A i \in 1..Len(log) : StageOf(log[i]) \notin stageSet

C12_PortFailureIsFatal ==
    failedAt \in {"addr_flush", "addr_add"} =>
        /\ pc = "fatal"
        /\ StageStatus("port") = "fatal"
        /\ failedAt = "addr_flush" => ~Called("addr_add")
        /\ log[Len(log)] = failedAt
        /\ NoCallOf({"dhcp", "conn"})

C12_Witness ==
    /\ failedAt = "addr_flush"
    /\ pc = "fatal"
    /\ Called("install_settle")

\* C13: when the restart fails the run is over, the file still starts with
\* the marker and binds the node's MAC to its IP, a file moved to the
\* backup path is still there, and connectivity was never started.
C13_RestartFailureKeepsFile ==
    failedAt = "dhcpd_restart" =>
        /\ pc = "fatal"
        /\ conf # NoFile
        /\ HasTag(readline(conf))
        /\ Binds(conf, node.mac, node.ip)
        /\ Called("conf_backup") => (backup # NoFile /\ ConfKind(backup) = "unmanaged")
        /\ NoCallOf({"conn"})

C13_Witness ==
    /\ failedAt = "dhcpd_restart"
    /\ Called("conf_backup")
    /\ pc = "fatal"

\* C14 as stated: the configuration file, its backup and the dhcpd service
\* change only in render_dhcpd_conf / configure_dhcpd, the interface only
\* in configure_iso_network_port.
C14_OnlyLeaseManagerTouchesDhcp ==
    [][ /\ (conf' # conf \/ backup' # backup \/ dhcpdRunning' # dhcpdRunning
              \/ activeConf' # activeConf)
            => pc \in {"conf_check", "conf_touch", "conf_write", "dhcpd_restart"}
        /\ ifaceAddrs' # ifaceAddrs => pc \in {"addr_flush", "addr_add"} ]_vars

\* C14 as amended: the configuration file and its backup change only in
\* render_dhcpd_conf; the dhcpd service changes only at the stop that opens
\* the run and at the restart of configure_dhcpd; the interface changes
\* only in configure_iso_network_port; a run that succeeds has written the
\* file once and restarted the service once.
C14_FrameWithStop ==
    [][ /\ (conf' # conf \/ backup' # backup)
            => pc \in {"conf_check", "conf_touch", "conf_write"}
        /\ (dhcpdRunning' # dhcpdRunning \/ activeConf' # activeConf)
            => pc \in {"stop_dhcpd", "dhcpd_restart"}
        /\ ifaceAddrs' # ifaceAddrs => pc \in {"addr_flush", "addr_add"}
        /\ (pc = "CONNECTING_ACC" /\ pc' = "done")
            => (Count("conf_write") = 1 /\ Count("dhcpd_restart") = 1
                /\ Count("stop_dhcpd") = 1) ]_vars

C14_Witness ==
    /\ pc = "done"
    /\ Count("conf_write") = 1
    /\ Count("dhcpd_restart") = 1
    /\ dhcpdRunning

\* C15: the reference is classified once; with a scheme and a network
\* location the boot request gets it unchanged and no server is started;
\* otherwise a server on port 8000 serves the image's directory and the
\* boot request gets http://<lh_ip>:8000/<file name>.
C15_ImageResolution ==
    /\ Count("is_http_url") <= 1
    /\ Called("boot_request") =>
          IF UrlScheme(iso) # <<>> /\ UrlNetloc(iso) # <<>>
          THEN /\ iso_address = iso
               /\ ~Called("server_start")
               /\ http_server = NoServer
          ELSE /\ Called("server_start")
               /\ iso_address =
                     <<"http", ":", "/", "/", lh_ip, ":", 8000, "/">> \o basename(iso)
               /\ pc \in {"boot", "imc_session", "install_settle"} =>
                     http_server = [dir |-> dirname(iso), port |-> 8000]
    /\ (Called("boot_request") /\ iso = RemoteIso) => iso_address = RemoteIso
    /\ (Called("boot_request") /\ iso = AbsIso) =>
          iso_address = <<"http", ":", "/", "/", "lh_ip", ":", 8000, "/", "img.iso">>
    /\ (pc = "imc_session" /\ iso = AbsIso) => http_server.dir = <<"/", "srv">>
    /\ (Called("boot_request") /\ iso = NoNetlocIso) => Called("server_start")

C15_Witness ==
    /\ Called("boot_request")
    /\ iso = NoNetlocIso
    /\ http_server # NoServer

\* C16: after configure_iso_network_port the interface holds exactly the
\* address a.b.c.0/24 of the node's a.b.c.d; the flush comes first and
\* leaves the interface without address.
C16_PortAddress ==
    /\ pc = "addr_add" => ifaceAddrs = {}
    /\ Before("addr_flush", "addr_add")
    /\ StageStatus("port") = "ok" =>
          /\ ifaceAddrs = {[addr |-> <<node.ip[1], node.ip[2], node.ip[3], 0>>,
                            prefix |-> 24]}
          /\ node.ip = Ip1 => ifaceAddrs = {[addr |-> <<192, 168, 1, 0>>, prefix |-> 24]}
          /\ node.ip = Ip2 => ifaceAddrs = {[addr |-> <<10, 0, 0, 0>>, prefix |-> 24]}

C16_Witness ==
    /\ StageStatus("port") = "ok"
    /\ node.ip = Ip1
    /\ run = 2
    /\ ifaceAddrs = {[addr |-> <<192, 168, 1, 0>>, prefix |-> 24]}

\* C17: the reboot command never ends the run: whatever it returns the
\* state machine is in WAITING_FOR_PORT next, and the probe comes only
\* after the settle wait that follows the reboot.
C17_RebootNeverFatal ==
    /\ failedAt # "reboot"
    /\ (Called("reboot") /\ ~Called("port_settle")) => pc = "WAITING_FOR_PORT"
    /\ Called("ping") =>
          /\ Called("port_settle")
          /\ Before("reboot", "port_settle")
          /\ Before("port_settle", "ping")

C17_Witness ==
    /\ Called("ping")
    /\ ~rebootOk

\* A backup that is none of the files that were at the backup path before
\* the first run was put there by render_dhcpd_conf.
MovedByTool(b) == b # NoFile /\ b \notin InitialBackups

\* C18: a backup made by render_dhcpd_conf is never replaced.
C18_BackupNeverReplaced ==
    [][MovedByTool(backup) => backup' = backup]_vars

\* C19: in a run with a local image the server is entered before the first
\* boot request and is up during the boot requests, the session open and
\* the settle wait; when helper returned, the server was left only after
\* the settle wait; no later stage is entered before the settle wait (and,
\* with a server, before it was left).
C19_ServerHeldThroughBoot ==
    /\ Len(stages) >= 4 => Called("install_settle")
    /\ Called("server_start") =>
          /\ pc \in {"boot", "imc_session", "install_settle"} => http_server # NoServer
          /\ Before("server_start", "boot_request")
          /\ (Called("server_stop") /\ StageStatus("boot") = "ok") =>
                Before("install_settle", "server_stop")
          /\ Len(stages) >= 4 => Called("server_stop")

C19_Witness ==
    /\ Called("server_start")
    /\ Called("server_stop")
    /\ StageStatus("boot") = "ok"
    /\ Len(stages) >= 4
====
